---- MODULE Spec2Model ----
(***************************************************************************)
(* Model of the baselib test-automation library: the CANoe handler         *)
(* (canoe_utils.py), the dSPACE handler (dspace_utils.py), the pytest      *)
(* fixtures (fixtures.py) and the seatbelt helpers (safety_helpers.py,     *)
(* assertions.py).                                                         *)
(*                                                                         *)
(* Spec        : the two handler objects with their methods called in any  *)
(*               order, one action per method.                             *)
(* SpecSession : one pytest session: the session fixtures canoe and        *)
(*               dspace, the function fixture test_setup, the tests.       *)
(***************************************************************************)
EXTENDS Integers, Sequences, FiniteSets, TLC

VARIABLES
    canoe,     \* the CanoeHandler object: [connected, config_path]
    sent,      \* messages the last call handed to the CAN bus
    dspace,    \* the DspaceHandler object: [connected, model_running, app, variables]
    com,       \* pythoncom: [init, uninit] counts of CoInitialize / CoUninitialize
    calls,     \* vendor (COM) calls made by the last call, in order
    op,        \* the call in progress or last finished: [name, args]
    outcome,   \* its outcome: [exc, val]
    wait,      \* the frame of wait_for_chime_status
    now,       \* time.time(), in ticks of 50 ms, counted from the call of the wait
    sess       \* the pytest session

vars == <<canoe, sent, dspace, com, calls, op, outcome, wait, now, sess>>

(***************************************************************************)
(* Bounds of the model.                                                    *)
(***************************************************************************)
MaxSpeed == 11
MaxTimeout == 3
MaxNow == 6
NumTests == 2

(***************************************************************************)
(* Outcomes of a call.                                                     *)
(***************************************************************************)
Return(v) == [exc |-> "none", val |-> v]
Raise(e) == [exc |-> e, val |-> "None"]
NoCall == [name |-> "none", args |-> <<>>]
Call(n, a) == [name |-> n, args |-> a]

(***************************************************************************)
(* canoe_utils.py                                                          *)
(***************************************************************************)
signal_map == {"EngineSpeed", "OnOff", "FlashLight", "HeadLight"}

message_map == {"EngineState", "LightState"}

valid_signals(message_name) ==
    IF message_name = "EngineState" THEN {"EngineSpeed", "OnOff"}
    ELSE {"FlashLight", "HeadLight"}

\* read_signal answering with the value last sent instead of the placeholder 0
Canoe_read_signal_FromBus(self, signal_name) ==
    IF ~self.connected THEN Raise("ConnectionError")
    ELSE IF signal_name \notin signal_map THEN Raise("ValueError")
    ELSE IF sent # <<>> /\ signal_name \in DOMAIN sent[1].data
         THEN Return(sent[1].data[signal_name])
    ELSE Return(0)

\* read_signal: the outcome of self.read_signal(signal_name)
Canoe_read_signal(self, signal_name) ==
    IF ~self.connected THEN Raise("ConnectionError")
    ELSE IF signal_name \notin signal_map THEN Raise("ValueError")
    ELSE Return(0)

\* send_message without the per-message validation of the signals
Canoe_send_message_NoSignalCheck(self, message_name, data) ==
    IF ~self.connected THEN Raise("ConnectionError")
    ELSE IF message_name \notin message_map THEN Raise("ValueError")
    ELSE Return("None")

\* send_message: the outcome of self.send_message(message_name, data)
Canoe_send_message(self, message_name, data) ==
    IF ~self.connected THEN Raise("ConnectionError")
    ELSE IF message_name \notin message_map THEN Raise("ValueError")
    ELSE IF \E signal \in DOMAIN data : signal \notin valid_signals(message_name)
         THEN Raise("ValueError")
    ELSE Return("None")

\* line 99: what a send_message call with this outcome hands to the bus
SentAfter(out, message_name, data) ==
    IF out.exc = "none" THEN <<[name |-> message_name, data |-> data]>> ELSE <<>>

\* the speed sent as it is, without the conversion to rpm
SpeedMessage_NoScale(speed) ==
    [s \in {"EngineSpeed", "OnOff"} |-> IF s = "EngineSpeed" THEN speed ELSE 1]

\* the message set_vehicle_speed builds
SpeedMessage(speed) ==
    [s \in {"EngineSpeed", "OnOff"} |-> IF s = "EngineSpeed" THEN speed * 100 ELSE 1]

\* the message set_seatbelt_status builds
SeatbeltMessage(is_fastened) ==
    [s \in {"FlashLight"} |-> IF is_fastened THEN 0 ELSE 1]

\* set_vehicle_speed: the outcome of self.set_vehicle_speed(speed)
Canoe_set_vehicle_speed(self, speed) ==
    IF speed < 0 THEN Raise("ValueError")
    ELSE Canoe_send_message(self, "EngineState", SpeedMessage(speed))

\* set_seatbelt_status: the outcome of self.set_seatbelt_status(is_fastened)
Canoe_set_seatbelt_status(self, is_fastened) ==
    Canoe_send_message(self, "LightState", SeatbeltMessage(is_fastened))

\* get_warning_chime_status: bool(self.read_signal("HeadLight"))
Canoe_get_warning_chime_status(self) ==
    LET r == Canoe_read_signal(self, "HeadLight")
    IN  IF r.exc = "none" THEN Return(r.val # 0) ELSE r

(***************************************************************************)
(* dspace_utils.py.  A method's run is a record: the handler afterwards,   *)
(* the outcome, and the vendor calls made, in order.  The vendor's answers *)
(* (a COM call succeeds or throws) are parameters.                         *)
(***************************************************************************)
Run(self, out, cs) == [self |-> self, out |-> out, calls |-> cs]

\* a vendor call as logged: its name, marked when it threw
Vendor(name, ok) == IF ok THEN name ELSE name \o ":throws"

\* start_model, with StartModel succeeding (vendor_ok) or throwing
Dspace_start_model(self, vendor_ok) ==
    IF ~self.connected THEN Run(self, Raise("ConnectionError"), <<>>)
    ELSE IF vendor_ok
         THEN Run([self EXCEPT !.model_running = TRUE], Return("None"),
                  <<Vendor("StartModel", TRUE)>>)
         ELSE Run(self, Raise("RuntimeError"), <<Vendor("StartModel", FALSE)>>)

\* stop_model clearing model_running before the vendor call
Dspace_stop_model_EarlyFlag(self, vendor_ok) ==
    IF ~self.connected THEN Run(self, Raise("ConnectionError"), <<>>)
    ELSE IF vendor_ok
         THEN Run([self EXCEPT !.model_running = FALSE], Return("None"),
                  <<Vendor("StopModel", TRUE)>>)
         ELSE Run([self EXCEPT !.model_running = FALSE], Raise("RuntimeError"),
                  <<Vendor("StopModel", FALSE)>>)

\* stop_model, with StopModel succeeding (vendor_ok) or throwing
Dspace_stop_model(self, vendor_ok) ==
    IF ~self.connected THEN Run(self, Raise("ConnectionError"), <<>>)
    ELSE IF vendor_ok
         THEN Run([self EXCEPT !.model_running = FALSE], Return("None"),
                  <<Vendor("StopModel", TRUE)>>)
         ELSE Run(self, Raise("RuntimeError"), <<Vendor("StopModel", FALSE)>>)

\* send_signal testing model_running before connected
Dspace_send_signal_RunningFirst(self, signal_name, value, vendor_ok) ==
    IF ~self.model_running THEN Run(self, Raise("RuntimeError"), <<>>)
    ELSE IF ~self.connected THEN Run(self, Raise("ConnectionError"), <<>>)
    ELSE IF vendor_ok THEN Run(self, Return("None"), <<Vendor("SetValue", TRUE)>>)
    ELSE Run(self, Raise("ValueError"), <<Vendor("SetValue", FALSE)>>)

\* send_signal, with variables.Item(...).Value = value succeeding or throwing
Dspace_send_signal(self, signal_name, value, vendor_ok) ==
    IF ~self.connected THEN Run(self, Raise("ConnectionError"), <<>>)
    ELSE IF ~self.model_running THEN Run(self, Raise("RuntimeError"), <<>>)
    ELSE IF vendor_ok THEN Run(self, Return("None"), <<Vendor("SetValue", TRUE)>>)
    ELSE Run(self, Raise("ValueError"), <<Vendor("SetValue", FALSE)>>)

\* read_signal, variables.Item(...).Value answering vendor_value or throwing
Dspace_read_signal(self, signal_name, vendor_ok, vendor_value) ==
    IF ~self.connected THEN Run(self, Raise("ConnectionError"), <<>>)
    ELSE IF ~self.model_running THEN Run(self, Raise("RuntimeError"), <<>>)
    ELSE IF vendor_ok THEN Run(self, Return(vendor_value), <<Vendor("GetValue", TRUE)>>)
    ELSE Run(self, Raise("ValueError"), <<Vendor("GetValue", FALSE)>>)

\* close without the test of connected: the cleanup runs on every call
Dspace_close_NoGuard(self, stop_ok, quit_ok) ==
    LET stopped == IF self.model_running
                   THEN Dspace_stop_model(self, stop_ok)
                   ELSE Run(self, Return("None"), <<>>)
        quit == IF stopped.out.exc = "none" /\ self.connected
                THEN <<Vendor("Quit", quit_ok)>> ELSE <<>>
    IN  Run([stopped.self EXCEPT !.app = "None", !.variables = "None",
                                 !.connected = FALSE],
            Return("None"),
            stopped.calls \o quit \o <<"CoUninitialize">>)

\* close, with StopModel and Quit each succeeding or throwing
Dspace_close(self, stop_ok, quit_ok) ==
    IF ~self.connected THEN Run(self, Return("None"), <<>>)
    ELSE LET stopped == IF self.model_running
                        THEN Dspace_stop_model(self, stop_ok)
                        ELSE Run(self, Return("None"), <<>>)
             quit == IF stopped.out.exc = "none" THEN <<Vendor("Quit", quit_ok)>> ELSE <<>>
         IN  Run([stopped.self EXCEPT !.app = "None", !.variables = "None",
                                      !.connected = FALSE],
                 Return("None"),
                 stopped.calls \o quit \o <<"CoUninitialize">>)

\* the methods class DspaceHandler defines
DspaceMethods ==
    {"__init__", "_connect", "start_model", "stop_model", "send_signal",
     "read_signal", "get_variable_info", "close"}

\* the methods class CanoeHandler defines
CanoeMethods ==
    {"__init__", "_connect", "start_measurement", "stop_measurement", "read_signal",
     "send_message", "set_vehicle_speed", "set_seatbelt_status",
     "get_warning_chime_status", "wait_for_chime_status"}

\* obj.name on an object of a class with these methods
Lookup(methods, name) ==
    IF name \in methods THEN Return("None") ELSE Raise("AttributeError")

\* a sequence of calls, each an outcome: the first that raises, or the last
FirstRaise(outs) ==
    IF \E i \in DOMAIN outs : outs[i].exc # "none"
    THEN outs[CHOOSE i \in DOMAIN outs :
                  outs[i].exc # "none" /\ \A j \in 1..(i - 1) : outs[j].exc = "none"]
    ELSE outs[Len(outs)]

(***************************************************************************)
(* assertions.py and helpers/safety_helpers.py                             *)
(***************************************************************************)
SPEED_THRESHOLD == 10

\* assert_speed_warning_threshold
assert_speed_warning_threshold(speed, seatbelt_fastened, warning_active) ==
    LET should_warn == speed > SPEED_THRESHOLD /\ ~seatbelt_fastened
    IN  IF warning_active = should_warn THEN Return("None") ELSE Raise("AssertionError")

\* verify_seatbelt_warning: [out, sent], the outcome and the messages sent
verify_seatbelt_warning(c, vehicle_speed, seatbelt_fastened) ==
    LET r1 == Canoe_set_vehicle_speed(c, vehicle_speed)
        r2 == Canoe_set_seatbelt_status(c, seatbelt_fastened)
        r3 == Lookup(DspaceMethods, "simulate_vehicle_speed")
        r4 == Lookup(DspaceMethods, "simulate_seatbelt_state")
        r5 == Lookup(DspaceMethods, "wait_for_model_steady_state")
        r6 == Canoe_get_warning_chime_status(c)
        expected_warning == vehicle_speed > 10 /\ ~seatbelt_fastened
        r7 == IF r6.exc = "none" THEN Return(r6.val = expected_warning) ELSE r6
        s1 == SentAfter(r1, "EngineState", SpeedMessage(vehicle_speed))
        s2 == IF r1.exc = "none"
              THEN SentAfter(r2, "LightState", SeatbeltMessage(seatbelt_fastened))
              ELSE <<>>
    IN  [out |-> FirstRaise(<<r1, r2, r3, r4, r5, r6, r7>>), sent |-> s1 \o s2]

(***************************************************************************)
(* helpers/diagnostics_helpers.py and activate_abs of safety_helpers.py    *)
(***************************************************************************)
\* the handler's exception let through instead of caught
Propagate(out, value) ==
    IF out.exc = "none" THEN Return(value) ELSE out

\* try: <handler call>; return value / except Exception: return False
ReturnFalseOnRaise(out, value) ==
    IF out.exc = "none" THEN Return(value) ELSE Return(FALSE)

\* the messages the helpers build
DtcRequestMessage == [s \in {"OnOff", "EngineSpeed"} |-> IF s = "OnOff" THEN 1 ELSE 0]
ClearDtcsMessage == [s \in {"OnOff", "EngineSpeed"} |-> 0]
AbsMessage == [s \in {"FlashLight", "HeadLight"} |-> IF s = "FlashLight" THEN 1 ELSE 0]

\* a helper that sends one message: [out, sent]
SendHelper(c, message_name, data) ==
    LET r == Canoe_send_message(c, message_name, data)
    IN  [out |-> ReturnFalseOnRaise(r, TRUE), sent |-> SentAfter(r, message_name, data)]

send_dtc_request(c, dtc_code) == SendHelper(c, "EngineState", DtcRequestMessage)

clear_dtcs(c) == SendHelper(c, "EngineState", ClearDtcsMessage)

activate_abs(c) == SendHelper(c, "LightState", AbsMessage)

\* verify_dtc_present: response = canoe.read_signal("OnOff"); return response == 1
verify_dtc_present(c, dtc_code) ==
    LET response == Canoe_read_signal(c, "OnOff")
    IN  ReturnFalseOnRaise(response, response.val = 1)

Count(seq, x) == Cardinality({i \in DOMAIN seq : seq[i] = x})

(***************************************************************************)
(* Inputs.                                                                 *)
(***************************************************************************)
SleepTicks == 2

Speeds == {-1, 0, SPEED_THRESHOLD, MaxSpeed}
MessageNames == message_map \cup {"BrakeState"}
SignalNames == signal_map \cup {"Unknown"}
Keys == {K \in SUBSET SignalNames : Cardinality(K) <= 2}
DataInputs == UNION {[K -> {0, 1}] : K \in Keys}
DspaceSignals == {"VehicleSpeed", "Unknown"}

(***************************************************************************)
(* The handlers after construction.                                        *)
(***************************************************************************)
\* CanoeHandler.__init__; connected is a public attribute that _connect sets
\* and every method tests: the methods are exercised for both of its values.
CanoeObjects == [connected : BOOLEAN, config_path : {"path/to/canoe/config"}]

\* DspaceHandler.__init__ having returned: _connect succeeded
DspaceConstructed ==
    [connected |-> TRUE, model_running |-> FALSE, app |-> "Application",
     variables |-> "Variables"]

IdleWait == [pc |-> "idle", expected_status |-> FALSE, timeout |-> 0, end_time |-> 0,
             polls |-> 0, sleeps |-> 0, last_poll |-> -1]

NoSession == [pc |-> "none"]

Init ==
    /\ canoe \in CanoeObjects
    /\ sent = <<>>
    /\ dspace = DspaceConstructed
    /\ com = [init |-> 1, uninit |-> 0]
    /\ calls = <<>>
    /\ op = NoCall
    /\ outcome = Return("None")
    /\ wait = IdleWait
    /\ now = 0
    /\ sess = NoSession

\* no wait_for_chime_status frame is active: another call can be made
Free == wait.pc \in {"idle", "done"}

CanoeOnly == UNCHANGED <<dspace, com, sess>> /\ calls' = <<>> /\ wait' = IdleWait /\ now' = 0
DspaceOnly == UNCHANGED <<canoe, sess>> /\ sent' = <<>> /\ wait' = IdleWait /\ now' = 0

(***************************************************************************)
(* CanoeHandler methods as actions.                                        *)
(***************************************************************************)
CanoeReadSignal ==
    /\ Free
    /\ \E signal_name \in SignalNames :
         /\ op' = Call("read_signal", <<signal_name>>)
         /\ outcome' = Canoe_read_signal(canoe, signal_name)
    /\ sent' = <<>>
    /\ UNCHANGED canoe
    /\ CanoeOnly

CanoeSendMessage ==
    /\ Free
    /\ \E message_name \in MessageNames, data \in DataInputs :
         LET out == Canoe_send_message(canoe, message_name, data)
         IN  /\ op' = Call("send_message", <<message_name, data>>)
             /\ outcome' = out
             /\ sent' = SentAfter(out, message_name, data)
    /\ UNCHANGED canoe
    /\ CanoeOnly

CanoeSetVehicleSpeed ==
    /\ Free
    /\ \E speed \in Speeds :
         LET out == Canoe_set_vehicle_speed(canoe, speed)
         IN  /\ op' = Call("set_vehicle_speed", <<speed>>)
             /\ outcome' = out
             /\ sent' = SentAfter(out, "EngineState", SpeedMessage(speed))
    /\ UNCHANGED canoe
    /\ CanoeOnly

CanoeSetSeatbeltStatus ==
    /\ Free
    /\ \E is_fastened \in BOOLEAN :
         LET out == Canoe_set_seatbelt_status(canoe, is_fastened)
         IN  /\ op' = Call("set_seatbelt_status", <<is_fastened>>)
             /\ outcome' = out
             /\ sent' = SentAfter(out, "LightState", SeatbeltMessage(is_fastened))
    /\ UNCHANGED canoe
    /\ CanoeOnly

CanoeGetWarningChimeStatus ==
    /\ Free
    /\ op' = Call("get_warning_chime_status", <<>>)
    /\ outcome' = Canoe_get_warning_chime_status(canoe)
    /\ sent' = <<>>
    /\ UNCHANGED canoe
    /\ CanoeOnly

(***************************************************************************)
(* CanoeHandler.wait_for_chime_status, statement by statement.             *)
(***************************************************************************)
Timeouts == 0..MaxTimeout

\* line 166: end_time = time.time() + timeout
WaitCall ==
    /\ Free
    /\ \E expected_status \in BOOLEAN, timeout \in Timeouts :
         /\ op' = Call("wait_for_chime_status", <<expected_status, timeout>>)
         /\ wait' = [pc |-> "loop", expected_status |-> expected_status,
                     timeout |-> timeout, end_time |-> 0 + timeout,
                     polls |-> 0, sleeps |-> 0, last_poll |-> -1]
    /\ now' = 0
    /\ outcome' = Return("None")
    /\ sent' = <<>>
    /\ calls' = <<>>
    /\ UNCHANGED <<canoe, dspace, com, sess>>

\* the loop test letting a poll start at the deadline itself
LoopTest_Inclusive(t, end_time) == t <= end_time

\* line 167: while time.time() < end_time; line 171: return False
LoopTest(t, end_time) == t < end_time

WaitLoop ==
    /\ wait.pc = "loop"
    /\ IF LoopTest(now, wait.end_time)
       THEN /\ wait' = [wait EXCEPT !.pc = "poll"]
            /\ UNCHANGED outcome
       ELSE /\ wait' = [wait EXCEPT !.pc = "done"]
            /\ outcome' = Return(FALSE)
    /\ UNCHANGED <<canoe, sent, dspace, com, calls, op, now, sess>>

\* lines 168-169: if self.get_warning_chime_status() == expected_status: return True
WaitPoll ==
    /\ wait.pc = "poll"
    /\ LET r == Canoe_get_warning_chime_status(canoe)
       IN  IF r.exc # "none"
           THEN /\ wait' = [wait EXCEPT !.pc = "done", !.polls = @ + 1, !.last_poll = now]
                /\ outcome' = r
           ELSE IF r.val = wait.expected_status
           THEN /\ wait' = [wait EXCEPT !.pc = "done", !.polls = @ + 1, !.last_poll = now]
                /\ outcome' = Return(TRUE)
           ELSE /\ wait' = [wait EXCEPT !.pc = "sleep", !.polls = @ + 1, !.last_poll = now]
                /\ UNCHANGED outcome
    /\ UNCHANGED <<canoe, sent, dspace, com, calls, op, now, sess>>

\* line 170: time.sleep(0.1) suspends for at least 100 ms
WaitSleep ==
    /\ wait.pc = "sleep"
    /\ \E late \in 0..1 : now' = now + SleepTicks + late
    /\ wait' = [wait EXCEPT !.pc = "loop", !.sleeps = @ + 1]
    /\ UNCHANGED <<canoe, sent, dspace, com, calls, op, outcome, sess>>

\* the clock advances between two statements of the wait
Tick ==
    /\ wait.pc \in {"loop", "poll"}
    /\ now < MaxNow
    /\ now' = now + 1
    /\ UNCHANGED <<canoe, sent, dspace, com, calls, op, outcome, wait, sess>>

(***************************************************************************)
(* DspaceHandler methods as actions.                                       *)
(***************************************************************************)
Uninits(cs) == Count(cs, "CoUninitialize")

DspaceEffect(name, args, run) ==
    /\ op' = Call(name, args)
    /\ outcome' = run.out
    /\ dspace' = run.self
    /\ calls' = run.calls
    /\ com' = [com EXCEPT !.uninit = @ + Uninits(run.calls)]

DspaceStartModel ==
    /\ Free
    /\ \E vendor_ok \in BOOLEAN :
         DspaceEffect("start_model", <<>>, Dspace_start_model(dspace, vendor_ok))
    /\ DspaceOnly

DspaceStopModel ==
    /\ Free
    /\ \E vendor_ok \in BOOLEAN :
         DspaceEffect("stop_model", <<>>, Dspace_stop_model(dspace, vendor_ok))
    /\ DspaceOnly

DspaceSendSignal ==
    /\ Free
    /\ \E signal_name \in DspaceSignals, value \in {0, 1}, vendor_ok \in BOOLEAN :
         DspaceEffect("send_signal", <<signal_name, value>>,
                      Dspace_send_signal(dspace, signal_name, value, vendor_ok))
    /\ DspaceOnly

DspaceReadSignal ==
    /\ Free
    /\ \E signal_name \in DspaceSignals, vendor_ok \in BOOLEAN, vendor_value \in {0, 1} :
         DspaceEffect("read_signal_dspace", <<signal_name>>,
                      Dspace_read_signal(dspace, signal_name, vendor_ok, vendor_value))
    /\ DspaceOnly

DspaceClose ==
    /\ Free
    /\ \E stop_ok \in BOOLEAN, quit_ok \in BOOLEAN :
         DspaceEffect("close", <<>>, Dspace_close(dspace, stop_ok, quit_ok))
    /\ DspaceOnly

(***************************************************************************)
(* helpers/safety_helpers.py as an action.                                 *)
(***************************************************************************)
VerifySeatbeltWarning ==
    /\ Free
    /\ \E vehicle_speed \in Speeds, seatbelt_fastened \in BOOLEAN :
         LET run == verify_seatbelt_warning(canoe, vehicle_speed, seatbelt_fastened)
         IN  /\ op' = Call("verify_seatbelt_warning", <<vehicle_speed, seatbelt_fastened>>)
             /\ outcome' = run.out
             /\ sent' = run.sent
    /\ UNCHANGED canoe
    /\ CanoeOnly

(***************************************************************************)
(* The diagnostics and ABS helpers as actions.                             *)
(***************************************************************************)
DtcCodes == {"P0123"}

HelperEffect(name, args, run) ==
    /\ op' = Call(name, args)
    /\ outcome' = run.out
    /\ sent' = run.sent
    /\ UNCHANGED canoe
    /\ CanoeOnly

SendDtcRequest ==
    /\ Free
    /\ \E dtc_code \in DtcCodes :
         HelperEffect("send_dtc_request", <<dtc_code>>, send_dtc_request(canoe, dtc_code))

ClearDtcs ==
    /\ Free
    /\ HelperEffect("clear_dtcs", <<>>, clear_dtcs(canoe))

ActivateAbs ==
    /\ Free
    /\ HelperEffect("activate_abs", <<>>, activate_abs(canoe))

VerifyDtcPresent ==
    /\ Free
    /\ \E dtc_code \in DtcCodes :
         HelperEffect("verify_dtc_present", <<dtc_code>>,
                      [out |-> verify_dtc_present(canoe, dtc_code), sent |-> <<>>])

Next ==
    \/ CanoeReadSignal
    \/ CanoeSendMessage
    \/ CanoeSetVehicleSpeed
    \/ CanoeSetSeatbeltStatus
    \/ CanoeGetWarningChimeStatus
    \/ WaitCall
    \/ WaitLoop
    \/ WaitPoll
    \/ WaitSleep
    \/ Tick
    \/ DspaceStartModel
    \/ DspaceStopModel
    \/ DspaceSendSignal
    \/ DspaceReadSignal
    \/ DspaceClose
    \/ VerifySeatbeltWarning
    \/ SendDtcRequest
    \/ ClearDtcs
    \/ ActivateAbs
    \/ VerifyDtcPresent

Spec == Init /\ [][Next]_vars

(***************************************************************************)
(* fixtures.py: one pytest session.  The code of a fixture between two     *)
(* yields runs as one step.  pytest sets up a session fixture for the      *)
(* first test that requests it, keeps its value (or the exception its      *)
(* setup raised) for the later ones, and resumes the generator after the   *)
(* last test of the session.                                               *)
(***************************************************************************)
\* the handlers before their construction
CanoeUnbuilt == [connected |-> FALSE, config_path |-> "unset"]
DspaceUnbuilt == [connected |-> FALSE, model_running |-> FALSE, app |-> "None",
                  variables |-> "None"]

\* what a test of the session requests
TestKinds == {"canoe", "dspace", "test_setup"}

InitSession ==
    /\ canoe = CanoeUnbuilt
    /\ sent = <<>>
    /\ dspace = DspaceUnbuilt
    /\ com = [init |-> 0, uninit |-> 0]
    /\ calls = <<>>
    /\ op = NoCall
    /\ outcome = Return("None")
    /\ wait = IdleWait
    /\ now = 0
    /\ sess = [pc |-> "collect", finished |-> 0, uses |-> "none",
               canoe_fx |-> "unset", dspace_fx |-> "unset",
               canoe_stops |-> 0, dspace_stops |-> 0,
               canoe_stop_at |-> -1, dspace_stop_at |-> -1,
               dspace_stop_exc |-> "pending", test_setup |-> "none"]

\* CanoeHandler.start_measurement / stop_measurement
Canoe_measurement(self) ==
    IF ~self.connected THEN Raise("ConnectionError") ELSE Return("None")

\* the canoe fixture up to its yield: [handler, fx, stops, out]
canoe_fixture_setup(config_path) ==
    LET canoe_instance == [connected |-> TRUE, config_path |-> config_path]
        started == Canoe_measurement(canoe_instance)
    IN  IF started.exc = "none"
        THEN [handler |-> canoe_instance, fx |-> "active", stops |-> 0, out |-> started]
        ELSE [handler |-> canoe_instance, fx |-> "start_failed", stops |-> 1,
              out |-> FirstRaise(<<Canoe_measurement(canoe_instance), started>>)]

\* DspaceHandler.__init__ with _connect: the model file exists or not, the
\* vendor connection succeeds or throws
Dspace_init(file_exists, connect_ok) ==
    IF ~file_exists THEN Run(DspaceUnbuilt, Raise("FileNotFoundError"), <<>>)
    ELSE IF ~connect_ok
         THEN Run(DspaceUnbuilt, Raise("RuntimeError"), <<"CoInitialize", "Dispatch:throws">>)
    ELSE Run(DspaceConstructed, Return("None"), <<"CoInitialize", "Dispatch", "Load">>)

\* the dspace fixture without its try/finally: a failed start stops nothing
dspace_fixture_setup_NoFinally(file_exists, connect_ok, start_ok, stop_ok) ==
    LET built == Dspace_init(file_exists, connect_ok)
        started == Dspace_start_model(built.self, start_ok)
    IN  IF built.out.exc # "none"
        THEN [run |-> built, fx |-> "failed", stops |-> 0, stop_exc |-> "pending"]
        ELSE IF started.out.exc = "none"
        THEN [run |-> Run(started.self, started.out, built.calls \o started.calls),
              fx |-> "active", stops |-> 0, stop_exc |-> "pending"]
        ELSE [run |-> Run(started.self, started.out, built.calls \o started.calls),
              fx |-> "start_failed", stops |-> 0, stop_exc |-> "pending"]

\* the dspace fixture up to its yield: [run, fx, stops, stop_exc]
dspace_fixture_setup(file_exists, connect_ok, start_ok, stop_ok) ==
    LET built == Dspace_init(file_exists, connect_ok)
        started == Dspace_start_model(built.self, start_ok)
        stopped == Dspace_stop_model(started.self, stop_ok)
    IN  IF built.out.exc # "none"
        THEN [run |-> built, fx |-> "failed", stops |-> 0, stop_exc |-> "pending"]
        ELSE IF started.out.exc = "none"
        THEN [run |-> Run(started.self, started.out, built.calls \o started.calls),
              fx |-> "active", stops |-> 0, stop_exc |-> "pending"]
        ELSE [run |-> Run(stopped.self, FirstRaise(<<stopped.out, started.out>>),
                          built.calls \o started.calls \o stopped.calls),
              fx |-> "start_failed", stops |-> 1, stop_exc |-> stopped.out.exc]

\* the calls of test_setup before and after its yield, in order
reset_vehicle_state(c) ==
    <<[call |-> "canoe.set_vehicle_speed",
       out |-> FirstRaise(<<Lookup(CanoeMethods, "set_vehicle_speed"),
                            Canoe_set_vehicle_speed(c, 0)>>)],
      [call |-> "canoe.set_seatbelt_status",
       out |-> FirstRaise(<<Lookup(CanoeMethods, "set_seatbelt_status"),
                            Canoe_set_seatbelt_status(c, TRUE)>>)],
      [call |-> "dspace.simulate_vehicle_speed",
       out |-> Lookup(DspaceMethods, "simulate_vehicle_speed")],
      [call |-> "dspace.simulate_seatbelt_state",
       out |-> Lookup(DspaceMethods, "simulate_seatbelt_state")],
      [call |-> "dspace.wait_for_model_steady_state",
       out |-> Lookup(DspaceMethods, "wait_for_model_steady_state")]>>

\* the call at which the sequence stops: the first that raises, or the last
StopsAt(steps) ==
    IF \E i \in DOMAIN steps : steps[i].out.exc # "none"
    THEN CHOOSE i \in DOMAIN steps :
             steps[i].out.exc # "none" /\ \A j \in 1..(i - 1) : steps[j].out.exc = "none"
    ELSE Len(steps)

SessionOnly == UNCHANGED <<wait, now>>

\* pytest picks the next test of the session
Collect ==
    /\ sess.pc = "collect"
    /\ \E uses \in TestKinds :
         sess' = [sess EXCEPT !.pc = IF uses = "dspace" THEN "setup_dspace"
                                     ELSE "setup_canoe",
                              !.uses = uses, !.test_setup = "none"]
    /\ UNCHANGED <<canoe, sent, dspace, com, calls, op, outcome>>
    /\ SessionOnly

\* where a test goes once a session fixture it requests is there
AfterCanoe(fx) ==
    IF fx # "active" THEN "test_end"
    ELSE IF sess.uses = "canoe" THEN "body" ELSE "setup_dspace"

AfterDspace(fx) ==
    IF fx # "active" THEN "test_end"
    ELSE IF sess.uses = "dspace" THEN "body" ELSE "test_setup"

\* fixture canoe, lines 44-50 (and 52-53 when start_measurement raised)
SetupCanoe ==
    /\ sess.pc = "setup_canoe"
    /\ IF sess.canoe_fx = "unset"
       THEN LET r == canoe_fixture_setup("path/to/canoe/config")
            IN  /\ canoe' = r.handler
                /\ op' = Call("canoe", <<>>)
                /\ outcome' = r.out
                /\ sess' = [sess EXCEPT !.pc = AfterCanoe(r.fx), !.canoe_fx = r.fx,
                                        !.canoe_stops = @ + r.stops,
                                        !.canoe_stop_at =
                                            IF r.stops > 0 THEN sess.finished ELSE @]
       ELSE /\ sess' = [sess EXCEPT !.pc = AfterCanoe(sess.canoe_fx)]
            /\ UNCHANGED <<canoe, op, outcome>>
    /\ UNCHANGED <<sent, dspace, com, calls>>
    /\ SessionOnly

\* fixture dspace, lines 67-73 (and 75-76 when start_model raised)
SetupDspace ==
    /\ sess.pc = "setup_dspace"
    /\ IF sess.dspace_fx = "unset"
       THEN \E file_exists \in BOOLEAN, connect_ok \in BOOLEAN,
               start_ok \in BOOLEAN, stop_ok \in BOOLEAN :
              LET r == dspace_fixture_setup(file_exists, connect_ok, start_ok, stop_ok)
              IN  /\ dspace' = r.run.self
                  /\ calls' = r.run.calls
                  /\ com' = [com EXCEPT !.init = @ + Count(r.run.calls, "CoInitialize")]
                  /\ op' = Call("dspace", <<>>)
                  /\ outcome' = r.run.out
                  /\ sess' = [sess EXCEPT !.pc = AfterDspace(r.fx), !.dspace_fx = r.fx,
                                          !.dspace_stops = @ + r.stops,
                                          !.dspace_stop_at =
                                              IF r.stops > 0 THEN sess.finished ELSE @,
                                          !.dspace_stop_exc = r.stop_exc]
       ELSE /\ sess' = [sess EXCEPT !.pc = AfterDspace(sess.dspace_fx)]
            /\ UNCHANGED <<dspace, calls, com, op, outcome>>
    /\ UNCHANGED <<canoe, sent>>
    /\ SessionOnly

\* fixture test_setup: lines 96-107 up to the yield, lines 109-118 after it
TestSetup ==
    /\ sess.pc \in {"test_setup", "test_teardown"}
    /\ LET steps == reset_vehicle_state(canoe)
           k == StopsAt(steps)
           ok == steps[k].out.exc = "none"
       IN  /\ op' = Call(steps[k].call, <<>>)
           /\ outcome' = steps[k].out
           /\ sent' = <<>>
           /\ sess' = [sess EXCEPT
                         !.pc = IF ok /\ sess.pc = "test_setup" THEN "body" ELSE "test_end",
                         !.test_setup = IF ~ok THEN "error"
                                        ELSE IF sess.pc = "test_setup" THEN "yielded"
                                        ELSE "done"]
    /\ UNCHANGED <<canoe, dspace, com, calls>>
    /\ SessionOnly

\* the body of a test calls the handlers it was given
InBody(handler) ==
    /\ sess.pc = "body"
    /\ sess.uses \in {handler, "test_setup"}

BodyStartModel == InBody("dspace") /\ DspaceStartModel
BodyStopModel == InBody("dspace") /\ DspaceStopModel
BodyClose == InBody("dspace") /\ DspaceClose
BodySetVehicleSpeed == InBody("canoe") /\ CanoeSetVehicleSpeed

BodyEnd ==
    /\ sess.pc = "body"
    /\ sess' = [sess EXCEPT !.pc = IF sess.uses = "test_setup" THEN "test_teardown"
                                   ELSE "test_end"]
    /\ UNCHANGED <<canoe, sent, dspace, com, calls, op, outcome>>
    /\ SessionOnly

\* a test is over; after the last one the session fixtures are torn down
TestEnd ==
    /\ sess.pc = "test_end"
    /\ sess' = [sess EXCEPT !.finished = @ + 1,
                            !.pc = IF sess.finished + 1 < NumTests THEN "collect"
                                   ELSE "teardown_dspace"]
    /\ UNCHANGED <<canoe, sent, dspace, com, calls, op, outcome>>
    /\ SessionOnly

\* fixture dspace, lines 74-76: the finally block after the yield
TeardownDspace ==
    /\ sess.pc = "teardown_dspace"
    /\ IF sess.dspace_fx = "active"
       THEN \E stop_ok \in BOOLEAN :
              LET r == Dspace_stop_model(dspace, stop_ok)
              IN  /\ dspace' = r.self
                  /\ calls' = r.calls
                  /\ op' = Call("dspace teardown", <<>>)
                  /\ outcome' = r.out
                  /\ sess' = [sess EXCEPT !.pc = "teardown_canoe",
                                          !.dspace_fx = "finalized",
                                          !.dspace_stops = @ + 1,
                                          !.dspace_stop_at = sess.finished,
                                          !.dspace_stop_exc = r.out.exc]
       ELSE /\ sess' = [sess EXCEPT !.pc = "teardown_canoe"]
            /\ UNCHANGED <<dspace, calls, op, outcome>>
    /\ UNCHANGED <<canoe, sent, com>>
    /\ SessionOnly

\* fixture canoe, lines 51-53: the finally block after the yield
TeardownCanoe ==
    /\ sess.pc = "teardown_canoe"
    /\ IF sess.canoe_fx = "active"
       THEN /\ op' = Call("canoe teardown", <<>>)
            /\ outcome' = Canoe_measurement(canoe)
            /\ sess' = [sess EXCEPT !.pc = "end", !.canoe_fx = "finalized",
                                    !.canoe_stops = @ + 1,
                                    !.canoe_stop_at = sess.finished]
       ELSE /\ sess' = [sess EXCEPT !.pc = "end"]
            /\ UNCHANGED <<op, outcome>>
    /\ UNCHANGED <<canoe, sent, dspace, com, calls>>
    /\ SessionOnly

NextSession ==
    \/ Collect
    \/ SetupCanoe
    \/ SetupDspace
    \/ TestSetup
    \/ BodyStartModel
    \/ BodyStopModel
    \/ BodyClose
    \/ BodySetVehicleSpeed
    \/ BodyEnd
    \/ TestEnd
    \/ TeardownDspace
    \/ TeardownCanoe

SpecSession == InitSession /\ [][NextSession]_vars

(***************************************************************************)
(* Claims about the handlers, checked under Spec.                          *)
(***************************************************************************)
Threw(cs) == \E i \in DOMAIN cs : cs[i] \in {"StartModel:throws", "StopModel:throws",
                                             "SetValue:throws", "GetValue:throws",
                                             "Quit:throws"}

\* the signals of each message, as the claim C3 lists them
C3_SignalsOf(message_name) ==
    IF message_name = "EngineState" THEN {"EngineSpeed", "OnOff"}
    ELSE IF message_name = "LightState" THEN {"FlashLight", "HeadLight"}
    ELSE {}

C3_Expected(connected, message_name, data) ==
    IF ~connected THEN "ConnectionError"
    ELSE IF message_name \notin {"EngineState", "LightState"} THEN "ValueError"
    ELSE IF ~(DOMAIN data \subseteq C3_SignalsOf(message_name)) THEN "ValueError"
    ELSE "none"

\* C3: send_message raises ConnectionError when the handler is not connected,
\* otherwise ValueError when the message name is unknown or a key of data is
\* not a signal of that message, otherwise returns normally; in every outcome
\* the handler's state (connected, config_path) is unchanged.
C3_SendMessageContract ==
    [][op'.name = "send_message" =>
         /\ outcome'.exc = C3_Expected(canoe.connected, op'.args[1], op'.args[2])
         /\ canoe' = canoe]_vars

\* a connected handler refused a known message because of a foreign signal
C3_Witness ==
    /\ op.name = "send_message"
    /\ canoe.connected
    /\ op.args[1] = "EngineState"
    /\ "FlashLight" \in DOMAIN op.args[2]
    /\ outcome.exc = "ValueError"

\* C4: read_signal raises ConnectionError when not connected (before looking
\* at the name), otherwise ValueError exactly when the name is not one of the
\* four signals, otherwise returns 0 whatever was sent before; so
\* get_warning_chime_status, when it returns, returns False.
C4_ReadSignalContract ==
    [][/\ op'.name = "read_signal" =>
            outcome' = IF ~canoe.connected THEN Raise("ConnectionError")
                       ELSE IF op'.args[1] \notin {"EngineSpeed", "OnOff",
                                                   "FlashLight", "HeadLight"}
                            THEN Raise("ValueError")
                       ELSE Return(0)
       /\ op'.name = "get_warning_chime_status" =>
            outcome' = IF canoe.connected THEN Return(FALSE)
                       ELSE Raise("ConnectionError")]_vars

\* a signal was read as 0 on a connected handler
C4_Witness ==
    /\ op.name = "read_signal"
    /\ op.args[1] = "HeadLight"
    /\ canoe.connected
    /\ outcome = Return(0)

\* C5: set_vehicle_speed raises ValueError when speed < 0 and sends nothing;
\* raises ConnectionError when not connected; otherwise sends exactly one
\* EngineState message with EngineSpeed = speed * 100 and OnOff = 1.  On a
\* connected handler set_seatbelt_status sends exactly one LightState message
\* with FlashLight 0 when fastened and 1 when unfastened.
C5_SetSpeedAndSeatbelt ==
    [][/\ op'.name = "set_vehicle_speed" =>
            LET speed == op'.args[1]
            IN  IF speed < 0 THEN outcome'.exc = "ValueError" /\ sent' = <<>>
                ELSE IF ~canoe.connected
                     THEN outcome'.exc = "ConnectionError" /\ sent' = <<>>
                ELSE /\ outcome' = Return("None")
                     /\ Len(sent') = 1
                     /\ sent'[1].name = "EngineState"
                     /\ DOMAIN sent'[1].data = {"EngineSpeed", "OnOff"}
                     /\ sent'[1].data["EngineSpeed"] = speed * 100
                     /\ sent'[1].data["OnOff"] = 1
       /\ op'.name = "set_seatbelt_status" =>
            IF ~canoe.connected
            THEN outcome'.exc = "ConnectionError" /\ sent' = <<>>
            ELSE /\ outcome' = Return("None")
                 /\ Len(sent') = 1
                 /\ sent'[1].name = "LightState"
                 /\ DOMAIN sent'[1].data = {"FlashLight"}
                 /\ sent'[1].data["FlashLight"] = (IF op'.args[1] THEN 0 ELSE 1)]_vars

\* a positive speed was sent as rpm
C5_Witness ==
    /\ op.name = "set_vehicle_speed"
    /\ op.args[1] = SPEED_THRESHOLD
    /\ Len(sent) = 1
    /\ sent[1].data["EngineSpeed"] = 1000

\* C6: send_signal and read_signal raise ConnectionError when not connected,
\* otherwise RuntimeError when the model is not running; when both hold a
\* failure of the vendor access is re-raised as ValueError; no outcome changes
\* connected or model_running.
C6_SignalAccessContract ==
    [][op'.name \in {"send_signal", "read_signal_dspace"} =>
         /\ dspace'.connected = dspace.connected
         /\ dspace'.model_running = dspace.model_running
         /\ IF ~dspace.connected
            THEN outcome'.exc = "ConnectionError" /\ calls' = <<>>
            ELSE IF ~dspace.model_running
                 THEN outcome'.exc = "RuntimeError" /\ calls' = <<>>
            ELSE /\ Len(calls') = 1
                 /\ outcome'.exc = (IF Threw(calls') THEN "ValueError" ELSE "none")]_vars

\* a closed handler whose model still runs answers ConnectionError
C6_Witness ==
    /\ op.name = "send_signal"
    /\ ~dspace.connected
    /\ dspace.model_running
    /\ outcome.exc = "ConnectionError"

\* C7: start_model and stop_model raise ConnectionError when not connected,
\* without a vendor call.  When connected, model_running becomes True only
\* after a successful StartModel and False only after a successful StopModel;
\* a failing vendor call is re-raised as RuntimeError and model_running keeps
\* its value.
C7_StartStopContract ==
    [][/\ op'.name \in {"start_model", "stop_model"} =>
            LET vendor == IF op'.name = "start_model" THEN "StartModel" ELSE "StopModel"
            IN  IF ~dspace.connected
                THEN outcome'.exc = "ConnectionError" /\ calls' = <<>> /\ dspace' = dspace
                ELSE IF calls' = <<vendor>>
                     THEN /\ outcome'.exc = "none"
                          /\ dspace' = [dspace EXCEPT !.model_running =
                                                          (op'.name = "start_model")]
                ELSE /\ calls' = <<vendor \o ":throws">>
                     /\ outcome'.exc = "RuntimeError"
                     /\ dspace' = dspace
       /\ (~dspace.model_running /\ dspace'.model_running) =>
            (op'.name = "start_model" /\ calls' = <<"StartModel">>)
       /\ (dspace.model_running /\ ~dspace'.model_running) =>
            (\E i \in DOMAIN calls' : calls'[i] = "StopModel")]_vars

\* StopModel threw: RuntimeError, and the model still counts as running
C7_Witness ==
    /\ op.name = "stop_model"
    /\ calls = <<"StopModel:throws">>
    /\ outcome.exc = "RuntimeError"
    /\ dspace.model_running

\* the position of a vendor call in the log, 0 when absent
Pos(cs, names) ==
    IF \E i \in DOMAIN cs : cs[i] \in names
    THEN CHOOSE i \in DOMAIN cs : cs[i] \in names /\ \A j \in 1..(i - 1) : cs[j] \notin names
    ELSE 0

\* C8: close() on a connected handler never raises, whatever StopModel or
\* Quit do; afterwards connected is False, app and variables are None, a
\* running model was asked to stop before Quit, and CoUninitialize was called
\* exactly once.  A close() on a closed handler changes nothing and does not
\* call CoUninitialize again.
C8_CloseContract ==
    [][op'.name = "close" =>
         /\ outcome' = Return("None")
         /\ IF dspace.connected
            THEN /\ ~dspace'.connected
                 /\ dspace'.app = "None"
                 /\ dspace'.variables = "None"
                 /\ dspace.model_running =>
                      /\ calls'[1] \in {"StopModel", "StopModel:throws"}
                      /\ Pos(calls', {"Quit", "Quit:throws"}) # 1
                 /\ Count(calls', "CoUninitialize") = 1
                 /\ com'.uninit = com.uninit + 1
            ELSE /\ dspace' = dspace
                 /\ calls' = <<>>
                 /\ com' = com]_vars

\* a second close() found the handler closed
C8_Witness ==
    /\ op.name = "close"
    /\ ~dspace.connected
    /\ calls = <<>>
    /\ com.uninit = 1

\* the chime as get_warning_chime_status reports it on a connected handler
Chime == Canoe_get_warning_chime_status(canoe).val

\* C1: wait_for_chime_status returns True if and only if the chime status
\* equals expected_status at some poll within the timeout, for every timeout
\* >= 0 and including a status that already matches when the call is made;
\* otherwise it returns False, and only once the deadline has passed.
C1_WaitReturnsTrueIffMatched ==
    (op.name = "wait_for_chime_status" /\ wait.pc = "done" /\ canoe.connected) =>
        /\ outcome.exc = "none"
        /\ outcome.val = TRUE <=> (Chime = wait.expected_status)
        /\ outcome.val = FALSE => now >= wait.end_time

\* C10: verify_seatbelt_warning applies speed and seatbelt to CANoe and to
\* dSPACE, waits for the steady state, and returns True exactly when the chime
\* equals (vehicle_speed > 10 and not seatbelt_fastened); the assertion
\* assert_speed_warning_threshold fails exactly when it would return False.
C10_VerifyFollowsRule ==
    (op.name = "verify_seatbelt_warning" /\ canoe.connected /\ op.args[1] >= 0) =>
        /\ outcome.exc = "none"
        /\ outcome.val = (Chime = (op.args[1] > 10 /\ ~op.args[2]))
        /\ (assert_speed_warning_threshold(op.args[1], op.args[2], Chime).exc
              = "AssertionError") <=> (outcome.val = FALSE)

\* C11: send_dtc_request, clear_dtcs, verify_dtc_present and activate_abs
\* never propagate an exception of the CANoe handler: they return True when
\* the request was sent (verify_dtc_present: when OnOff reads 1) and False
\* whenever the handler call raises.
C11_HelpersReturnFalseOnRaise ==
    [][/\ op'.name \in {"send_dtc_request", "clear_dtcs", "activate_abs"} =>
            /\ outcome'.exc = "none"
            /\ outcome'.val = canoe.connected
            /\ outcome'.val = (Len(sent') = 1)
            /\ canoe' = canoe
       /\ op'.name = "verify_dtc_present" =>
            /\ outcome'.exc = "none"
            /\ outcome'.val = FALSE
            /\ canoe' = canoe]_vars

\* the handler raised ConnectionError and the helper answered False
C11_Witness ==
    /\ op.name = "send_dtc_request"
    /\ ~canoe.connected
    /\ sent = <<>>
    /\ outcome = Return(FALSE)

InWait == wait.pc \in {"loop", "poll", "sleep"}

\* the next statement of the wait
WaitStep == WaitLoop \/ WaitPoll \/ WaitSleep

\* statements of the loop executed so far, three to an iteration
WaitMeasure(w) ==
    3 * w.sleeps + (IF w.pc = "poll" THEN 1 ELSE IF w.pc = "sleep" THEN 2
                    ELSE IF w.pc = "done" THEN 3 ELSE 0)

\* the polls the claim allows for a timeout
PollBound(timeout) == (timeout \div SleepTicks) + 1

CanoeBuilt == sess.canoe_fx # "unset"
DspaceBuilt == sess.dspace_fx \notin {"unset", "failed"}

\* C2: for every test that uses test_setup, the reset of the vehicle state
\* (speed 0, seatbelt fastened, on CANoe and on dSPACE, then the steady-state
\* wait) runs to its end before the yield and again after the test body:
\* every operation the fixture calls is one its handler provides.
C2_TestSetupResets ==
    /\ sess.test_setup # "error"
    /\ (sess.pc = "test_end" /\ sess.uses = "test_setup"
          /\ sess.canoe_fx = "active" /\ sess.dspace_fx = "active") =>
         sess.test_setup = "done"

\* C9, as claimed: once the handler is constructed the fixture calls
\* stop_measurement / stop_model exactly once, after every test of the session
\* has finished, also when start raised; and after the dspace fixture's
\* teardown the model is not running.
C9_StopOnceAfterAllTests ==
    /\ sess.canoe_stops <= 1
    /\ sess.dspace_stops <= 1
    /\ sess.pc = "end" => /\ CanoeBuilt => sess.canoe_stops = 1
                          /\ DspaceBuilt => sess.dspace_stops = 1
    /\ sess.canoe_stops = 1 => sess.canoe_stop_at = NumTests
    /\ sess.dspace_stops = 1 => sess.dspace_stop_at = NumTests
    /\ sess.dspace_fx \in {"finalized", "start_failed"} => ~dspace.model_running

\* C9, amended: once the handler is constructed the fixture calls
\* stop_measurement / stop_model exactly once: after every test of the session
\* has finished when start succeeded, and during the fixture's setup, before
\* the tests have finished, when start raised; and when the dspace fixture's
\* stop_model call returns without raising, the model is not running.
C9_StopOnceAtTeardownOrFailedStart ==
    /\ sess.canoe_stops <= 1
    /\ sess.dspace_stops <= 1
    /\ sess.pc = "end" => /\ CanoeBuilt => sess.canoe_stops = 1
                          /\ DspaceBuilt => sess.dspace_stops = 1
    /\ sess.canoe_stops = 1 =>
         IF sess.canoe_fx = "finalized" THEN sess.canoe_stop_at = NumTests
         ELSE sess.canoe_fx = "start_failed" /\ sess.canoe_stop_at < NumTests
    /\ sess.dspace_stops = 1 =>
         IF sess.dspace_fx = "finalized" THEN sess.dspace_stop_at = NumTests
         ELSE sess.dspace_fx = "start_failed" /\ sess.dspace_stop_at < NumTests
    /\ (sess.dspace_fx \in {"finalized", "start_failed"} /\ sess.dspace_stop_exc = "none")
         => ~dspace.model_running

\* start_model raised in the fixture's setup: stop_model ran then, once, and
\* the session went on to its end
C9_Witness ==
    /\ sess.pc = "end"
    /\ sess.dspace_fx = "start_failed"
    /\ sess.dspace_stops = 1
    /\ sess.dspace_stop_at = 0
    /\ sess.dspace_stop_exc = "none"

====
